---- MODULE Spec2Model ----
(***************************************************************************)
(* A model of hixio-mh/Lib-quantum's Python glue:                          *)
(*   - qsharp/clients/iqsharp.py : IQSharpClient and IQSharpError          *)
(*   - qdk_chemistry/geometry/geometry.py : Geometry.from_xyz              *)
(*   - qdk_chemistry/solvers/openmolcas.py, util.py : create_input_deck    *)
(* Text is a sequence of one-character strings, JSON text a sequence of    *)
(* lexemes, and a Python value a record [t, s, v] (type tag, scalar text,  *)
(* children).  Python's `assert` is modelled as executed (the interpreter  *)
(* run without -O).                                                        *)
(***************************************************************************)
EXTENDS Integers, Sequences, FiniteSets, TLC

\* The number of events the transport delivers to one execute call.
MaxEvents == 3
\* The number of lines that follow the title line of an XYZ text.
MaxBodyLines == 3

VARIABLES
    kernel,         \* kernel_manager's kernel: "none", "running", "shutdown"
    kernel_client,  \* IQSharpClient.kernel_client: "None" or "client"
    pc,             \* "idle", or "executing" inside execute_interactive
    call,           \* the public call in progress (or the last one)
    received,       \* the events handed to output_hook during the call
    results,        \* execute's local list `results`
    errors,         \* execute's local list `errors`
    forwarded,      \* the events given to kernel_client._output_hook_default
    sent,           \* the commands handed to execute_interactive by the call
    reply,          \* how execute_interactive ended: "none", "returned", "raised"
    exec_out,       \* what execute returned or raised
    outcome,        \* what the public call returned or raised
    xyz,            \* the argument of the last Geometry.from_xyz call
    geom,           \* its outcome
    deck_args,      \* the arguments of the last create_input_deck call
    deck            \* its outcome

client_vars == <<kernel, kernel_client, pc, call, received, results, errors,
                 forwarded, sent, reply, exec_out, outcome>>
xyz_vars == <<xyz, geom>>
deck_vars == <<deck_args, deck>>
vars == <<client_vars, xyz_vars, deck_vars>>

(***************************************************************************)
(* Text helpers.                                                           *)
(***************************************************************************)
RECURSIVE Concat(_)
\* The concatenation of a sequence of sequences: StringIO.writelines, str.join("").
Concat(ss) == IF ss = <<>> THEN <<>> ELSE Head(ss) \o Concat(Tail(ss))

\* s[i..j] (empty when j < i).
Slice(s, i, j) == IF j < i THEN <<>> ELSE SubSeq(s, i, j)

\* t occurs in s as a contiguous run.
Contains(s, t) ==
    \E i \in 1..(Len(s) - Len(t) + 1) : SubSeq(s, i, i + Len(t) - 1) = t

RECURSIVE SplitLines(_)
\* str.split("\n"): the pieces between newlines (a trailing newline yields a
\* last empty piece).
SplitLines(s) ==
    IF \A i \in 1..Len(s) : s[i] # "\n" THEN <<s>>
    ELSE LET k == CHOOSE i \in 1..Len(s) :
                      s[i] = "\n" /\ \A j \in 1..(i - 1) : s[j] # "\n"
         IN <<Slice(s, 1, k - 1)>> \o SplitLines(Slice(s, k + 1, Len(s)))

(***************************************************************************)
(* Python values.                                                          *)
(***************************************************************************)
PyNone == [t |-> "None", s |-> "", v |-> <<>>]
PyTrue == [t |-> "bool", s |-> "True", v |-> <<>>]
PyInt(n) == [t |-> "int", s |-> n, v |-> <<>>]
PyFloat(x) == [t |-> "float", s |-> x, v |-> <<>>]
PyStr(x) == [t |-> "str", s |-> x, v |-> <<>>]
PyList(xs) == [t |-> "list", s |-> "", v |-> xs]
PyTuple(xs) == [t |-> "tuple", s |-> "", v |-> xs]
\* A dict is the sequence of its items in insertion order.
PyItem(k, x) == [t |-> "item", s |-> k, v |-> <<x>>]
PyDict(items) == [t |-> "dict", s |-> "", v |-> items]

HasKey(d, k) == \E i \in 1..Len(d.v) : d.v[i].s = k
Get(d, k) == (d.v[CHOOSE i \in 1..Len(d.v) : d.v[i].s = k]).v[1]
\* d[k] = x: replaces the value of an existing key, else appends.
DictSet(items, k, x) ==
    IF \E i \in 1..Len(items) : items[i].s = k
    THEN [i \in 1..Len(items) |-> IF items[i].s = k THEN PyItem(k, x) ELSE items[i]]
    ELSE Append(items, PyItem(k, x))

(***************************************************************************)
(* json.loads and json.dumps over lexemes.                                 *)
(***************************************************************************)
IntTokens == {"1", "2", "3"}
FloatTokens == {"2.0", "3.0", "2.5"}
\* The string lexemes in use and the Python string each denotes.
StrLit == ("\"@type\"" :> "@type") @@ ("\"tuple\"" :> "tuple") @@
          ("\"Item1\"" :> "Item1") @@ ("\"Item2\"" :> "Item2") @@
          ("\"Item3\"" :> "Item3") @@
          ("\"T\"" :> "T") @@ ("\"CNOT\"" :> "CNOT") @@ ("\"n\"" :> "n") @@
          ("\"pair\"" :> "pair")
StringTokens == DOMAIN StrLit
Quote(x) == CHOOSE q \in StringTokens : StrLit[q] = x

ParseFail == [ok |-> FALSE, val |-> PyNone, next |-> 0]
ParseOk(x, n) == [ok |-> TRUE, val |-> x, next |-> n]
At(toks, i, tok) == i <= Len(toks) /\ toks[i] = tok

RECURSIVE ParseValue(_, _), ParseElems(_, _, _), ParseMembers(_, _, _)
ParseValue(toks, i) ==
    IF i > Len(toks) THEN ParseFail
    ELSE IF toks[i] = "null" THEN ParseOk(PyNone, i + 1)
    ELSE IF toks[i] \in IntTokens THEN ParseOk(PyInt(toks[i]), i + 1)
    ELSE IF toks[i] \in FloatTokens THEN ParseOk(PyFloat(toks[i]), i + 1)
    ELSE IF toks[i] \in StringTokens THEN ParseOk(PyStr(StrLit[toks[i]]), i + 1)
    ELSE IF toks[i] = "["
         THEN IF At(toks, i + 1, "]") THEN ParseOk(PyList(<<>>), i + 2)
              ELSE ParseElems(toks, i + 1, <<>>)
    ELSE IF toks[i] = "{"
         THEN IF At(toks, i + 1, "}") THEN ParseOk(PyDict(<<>>), i + 2)
              ELSE ParseMembers(toks, i + 1, <<>>)
    ELSE ParseFail

ParseElems(toks, i, acc) ==
    LET r == ParseValue(toks, i) IN
    IF ~r.ok THEN ParseFail
    ELSE IF At(toks, r.next, ",") THEN ParseElems(toks, r.next + 1, Append(acc, r.val))
    ELSE IF At(toks, r.next, "]") THEN ParseOk(PyList(Append(acc, r.val)), r.next + 1)
    ELSE ParseFail

ParseMembers(toks, i, acc) ==
    IF ~(i <= Len(toks) /\ toks[i] \in StringTokens /\ At(toks, i + 1, ":"))
    THEN ParseFail
    ELSE LET r == ParseValue(toks, i + 2) IN
         IF ~r.ok THEN ParseFail
         ELSE LET items == DictSet(acc, StrLit[toks[i]], r.val) IN
              IF At(toks, r.next, ",") THEN ParseMembers(toks, r.next + 1, items)
              ELSE IF At(toks, r.next, "}") THEN ParseOk(PyDict(items), r.next + 1)
              ELSE ParseFail

\* json.loads(text): ok is FALSE where Python raises JSONDecodeError.
json_loads(toks) ==
    LET r == ParseValue(toks, 1) IN
    IF r.ok /\ r.next = Len(toks) + 1 THEN r ELSE ParseFail

RECURSIVE json_dumps(_), DumpElems(_), DumpMembers(_)
\* json.dumps(obj): a tuple is written as an array, like a list.
json_dumps(x) ==
    IF x.t = "None" THEN <<"null">>
    ELSE IF x.t \in {"int", "float"} THEN <<x.s>>
    ELSE IF x.t = "str" THEN <<Quote(x.s)>>
    ELSE IF x.t \in {"list", "tuple"} THEN <<"[">> \o DumpElems(x.v) \o <<"]">>
    ELSE <<"{">> \o DumpMembers(x.v) \o <<"}">>

DumpElems(xs) ==
    IF xs = <<>> THEN <<>>
    ELSE json_dumps(Head(xs)) \o
         (IF Len(xs) > 1 THEN <<",">> ELSE <<>>) \o DumpElems(Tail(xs))

DumpMembers(items) ==
    IF items = <<>> THEN <<>>
    ELSE <<Quote(Head(items).s), ":">> \o json_dumps(Head(items).v[1]) \o
         (IF Len(items) > 1 THEN <<",">> ELSE <<>>) \o DumpMembers(Tail(items))

(***************************************************************************)
(* qsharp.serialization: the tuple codec.                                  *)
(***************************************************************************)
ItemKey(n) == CASE n = 1 -> "Item1" [] n = 2 -> "Item2" [] OTHER -> "Item3"

RECURSIVE map_tuples(_)
\* A tuple becomes {"@type": "tuple", "Item1": ..., "Item2": ...}.
map_tuples(x) ==
    IF x.t = "tuple"
    THEN PyDict(<<PyItem("@type", PyStr("tuple"))>> \o
                [i \in 1..Len(x.v) |-> PyItem(ItemKey(i), map_tuples(x.v[i]))])
    ELSE IF x.t = "list" THEN PyList([i \in 1..Len(x.v) |-> map_tuples(x.v[i])])
    ELSE IF x.t = "dict"
         THEN PyDict([i \in 1..Len(x.v) |-> PyItem(x.v[i].s, map_tuples(x.v[i].v[1]))])
    ELSE x

RECURSIVE unmap_tuples(_), TupleItems(_, _)
\* The values of Item1, Item2, ... of a tagged dict, up to the first missing key.
TupleItems(d, n) ==
    IF n <= 3 /\ HasKey(d, ItemKey(n))
    THEN <<unmap_tuples(Get(d, ItemKey(n)))>> \o TupleItems(d, n + 1)
    ELSE <<>>

\* The inverse of map_tuples; a value that carries no tag passes through.
unmap_tuples(x) ==
    IF x.t = "dict"
    THEN IF HasKey(x, "@type") /\ Get(x, "@type") = PyStr("tuple")
         THEN PyTuple(TupleItems(x, 1))
         ELSE PyDict([i \in 1..Len(x.v) |->
                          PyItem(x.v[i].s, unmap_tuples(x.v[i].v[1]))])
    ELSE IF x.t = "list" THEN PyList([i \in 1..Len(x.v) |-> unmap_tuples(x.v[i])])
    ELSE x

(***************************************************************************)
(* The IQ# client: qsharp/clients/iqsharp.py.                              *)
(***************************************************************************)
\* What a call returned or raised; kind "none" while it has done neither.
Pending == [kind |-> "none", exc |-> "", value |-> PyNone, errors |-> <<>>,
            message |-> <<>>]
Return(x) == [kind |-> "return", exc |-> "", value |-> x, errors |-> <<>>,
              message |-> <<>>]
Raise(e) == [kind |-> "raise", exc |-> e, value |-> PyNone, errors |-> <<>>,
             message |-> <<>>]

Banner == <<"T","h","e"," ","Q","#"," ","k","e","r","n","e","l"," ","r","a","i",
            "s","e","d"," ","t","h","e"," ","f","o","l","l","o","w","i","n","g",
            " ","e","r","r","o","r","s",":","\n">>
Indent == <<" ", " ", " ", " ">>

\* IQSharpError(iqsharp_errors): writelines writes the banner's successors one
\* after the other and adds no line separator.
IQSharpError(iqsharp_errors) ==
    [kind |-> "raise", exc |-> "IQSharpError", value |-> PyNone,
     errors |-> iqsharp_errors,
     message |-> Banner \o Concat([i \in 1..Len(iqsharp_errors) |->
                                       Indent \o iqsharp_errors[i]])]

\* The messages of the kernel's IOPub channel.
Msg(type, name, text, hasJson, json) ==
    [msg_type |-> type, name |-> name, text |-> text, hasJson |-> hasJson,
     json |-> json]
JsonTexts ==
    { <<"[", "1", ",", "2", "]">>,
      <<"{", "\"@type\"", ":", "\"tuple\"", ",", "\"Item1\"", ":", "1", ",",
        "\"Item2\"", ":", "[", "2.0", "]", "}">>,
      <<"{", "\"T\"", ":", "2.0", ",", "\"CNOT\"", ":", "3.0", "}">> }
StreamTexts == { <<"e", "1", "\n">>, <<"e", "2">> }
Messages ==
    {Msg("execute_result", "", <<>>, FALSE, <<>>)}
    \cup {Msg("execute_result", "", <<>>, TRUE, j) : j \in JsonTexts}
    \cup {Msg("stream", "stderr", t, FALSE, <<>>) : t \in StreamTexts}
    \cup {Msg("stream", "stdout", <<"o", "\n">>, FALSE, <<>>),
          Msg("display_data", "", <<>>, FALSE, <<>>)}

\* msg['content'] of an execute_result: its MIME-keyed data map.
Content(msg) ==
    PyDict(<<PyItem("data",
        PyDict(<<PyItem("text/plain", PyStr("repr"))>> \o
               (IF msg.hasJson
                THEN <<PyItem("application/json",
                              PyList([i \in 1..Len(msg.json) |-> PyStr(msg.json[i])]))>>
                ELSE <<>>)))>>)

\* output_hook with the raise_on_stderr test left out: stderr text is always
\* buffered.
output_hook_target_always_buffers(msg, raise_on_stderr) ==
    IF msg.msg_type = "execute_result" THEN "results"
    ELSE IF msg.msg_type = "stream" /\ msg.name = "stderr" THEN "errors"
    ELSE "default"

\* The list output_hook puts msg on: "results", "errors", or "default" for
\* kernel_client._output_hook_default.
output_hook_target(msg, raise_on_stderr) ==
    IF msg.msg_type = "execute_result" THEN "results"
    ELSE IF raise_on_stderr /\ msg.msg_type = "stream" /\ msg.name = "stderr"
         THEN "errors"
    ELSE "default"

\* execute without `assert len(results) == 1`: the first result is returned.
execute_reply_no_assert(results_, errors_, return_full_result) ==
    IF errors_ # <<>> THEN IQSharpError(errors_)
    ELSE IF results_ # <<>>
    THEN LET msg == results_[1]
             obj == IF msg.hasJson THEN unmap_tuples(json_loads(msg.json).val)
                    ELSE PyNone
         IN IF return_full_result THEN Return(PyTuple(<<obj, Content(msg)>>))
            ELSE Return(obj)
    ELSE Return(PyNone)

\* execute with json.loads alone, unmap_tuples left out.
execute_reply_no_unmap(results_, errors_, return_full_result) ==
    IF errors_ # <<>> THEN IQSharpError(errors_)
    ELSE IF results_ # <<>>
    THEN IF Len(results_) # 1 THEN Raise("AssertionError")
         ELSE LET msg == results_[1]
                  obj == IF msg.hasJson THEN json_loads(msg.json).val ELSE PyNone
              IN IF return_full_result THEN Return(PyTuple(<<obj, Content(msg)>>))
                 ELSE Return(obj)
    ELSE Return(PyNone)

\* execute, from the return of execute_interactive on.
execute_reply(results_, errors_, return_full_result) ==
    IF errors_ # <<>> THEN IQSharpError(errors_)
    ELSE IF results_ # <<>>
    THEN IF Len(results_) # 1 THEN Raise("AssertionError")
         ELSE LET msg == results_[1]
                  parsed == json_loads(msg.json)
                  obj == IF msg.hasJson THEN unmap_tuples(parsed.val) ELSE PyNone
              IN IF msg.hasJson /\ ~parsed.ok THEN Raise("JSONDecodeError")
                 ELSE IF return_full_result
                      THEN Return(PyTuple(<<obj, Content(msg)>>))
                      ELSE Return(obj)
    ELSE Return(PyNone)

\* is_ready with `except TimeoutError` in place of `except Exception`.
is_ready_result_catches_timeout(o) ==
    IF o.kind = "raise"
    THEN IF o.exc = "TimeoutError" THEN Return(PyNone) ELSE o
    ELSE Return(PyTrue)

\* is_ready, given what its execute('%history', timeout=30) did.
is_ready_result(o) == IF o.kind = "raise" THEN Return(PyNone) ELSE Return(PyTrue)

\* int(count) of a JSON number.
IntOf(x) ==
    IF x.t = "int" THEN x.s
    ELSE CASE x.s = "2.0" -> "2" [] x.s = "2.5" -> "2" [] OTHER -> "3"

\* estimate, given what its execute did: every count of the mapping as an int.
estimate_result(o) ==
    IF o.kind = "raise" THEN o
    ELSE IF o.value.t # "dict" THEN Raise("AttributeError")
    ELSE IF \E i \in 1..Len(o.value.v) : o.value.v[i].v[1].t \notin {"int", "float"}
         THEN Raise("TypeError")
    ELSE Return(PyDict([i \in 1..Len(o.value.v) |->
                            PyItem(o.value.v[i].s, PyInt(IntOf(o.value.v[i].v[1])))]))

\* A public method's call of execute: the command, the keyword arguments, and
\* name_error for a keyword argument whose evaluation raises NameError.
ExecuteCall(op, input, raise_on_stderr, return_full_result, timeout, name_error) ==
    [op |-> op, input |-> input, raise_on_stderr |-> raise_on_stderr,
     return_full_result |-> return_full_result, timeout |-> timeout,
     name_error |-> name_error, after_stop |-> FALSE, ready |-> FALSE]

is_ready == ExecuteCall("is_ready", <<"%history">>, FALSE, FALSE, TRUE, FALSE)
compile(body) == ExecuteCall("compile", <<body>>, FALSE, FALSE, FALSE, FALSE)
get_available_operations ==
    ExecuteCall("get_available_operations", <<"%who">>, FALSE, FALSE, FALSE, FALSE)
get_operation_metadata(name) ==
    ExecuteCall("get_operation_metadata", <<"?", name>>, FALSE, FALSE, FALSE, FALSE)
get_workspace_operations ==
    ExecuteCall("get_workspace_operations", <<"%workspace">>, FALSE, FALSE, FALSE, FALSE)
reload == ExecuteCall("reload", <<"%workspace reload">>, TRUE, FALSE, FALSE, FALSE)
add_package(name) ==
    ExecuteCall("add_package", <<"%package ", name>>, TRUE, FALSE, FALSE, FALSE)
\* raise_on_stderr=False1: the name False1 is not defined.
get_packages == ExecuteCall("get_packages", <<"%package">>, FALSE, FALSE, FALSE, TRUE)
simulate(op_name, params) ==
    ExecuteCall("simulate",
                <<"%simulate ", op_name, " ">> \o json_dumps(map_tuples(params)),
                FALSE, FALSE, FALSE, FALSE)
estimate(op_name, params) ==
    ExecuteCall("estimate",
                <<"%estimate ", op_name, " ">> \o json_dumps(map_tuples(params)),
                FALSE, FALSE, FALSE, FALSE)
execute(input, return_full_result, raise_on_stderr) ==
    ExecuteCall("execute", input, raise_on_stderr, return_full_result, FALSE, FALSE)

\* What the public method makes of execute's outcome.
Finish(op, o) ==
    IF op = "is_ready" THEN is_ready_result(o)
    ELSE IF op = "estimate" THEN estimate_result(o)
    ELSE o

Params == { PyDict(<<>>),
            PyDict(<<PyItem("pair", PyTuple(<<PyInt("1"), PyFloat("2.0")>>))>>) }
PublicCalls ==
    {is_ready, compile("operation Foo() : Unit {}"), get_available_operations,
     get_operation_metadata("Foo"), get_workspace_operations, reload,
     add_package("pkg"), get_packages, estimate("Foo", PyDict(<<>>))}
    \cup {simulate("Foo", p) : p \in Params}
    \cup {execute(<<"%lsmagic">>, f, r) : f \in BOOLEAN, r \in BOOLEAN}

\* start(): start_kernel, then kernel_client = kernel_manager.client().
start ==
    /\ pc = "idle"
    /\ kernel' = "running"
    /\ kernel_client' = "client"
    /\ UNCHANGED <<pc, call, received, results, errors, forwarded, sent, reply,
                   exec_out, outcome, xyz_vars, deck_vars>>

\* stop(): shutdown_kernel, any exception swallowed.
stop ==
    /\ pc = "idle"
    /\ kernel' = IF kernel = "running" THEN "shutdown" ELSE kernel
    /\ UNCHANGED <<kernel_client, pc, call, received, results, errors, forwarded,
                   sent, reply, exec_out, outcome, xyz_vars, deck_vars>>

\* A public method is called: its arguments are evaluated, execute is entered
\* and hands the command to kernel_client.execute_interactive.
Invoke(c) ==
    /\ pc = "idle"
    /\ call' = [c EXCEPT !.after_stop = (kernel = "shutdown"),
                         !.ready = (kernel = "running")]
    /\ received' = <<>> /\ results' = <<>> /\ errors' = <<>> /\ forwarded' = <<>>
    /\ reply' = "none"
    /\ IF c.name_error
       THEN /\ sent' = <<>> /\ pc' = "idle"
            /\ exec_out' = Pending
            /\ outcome' = Raise("NameError")
       ELSE IF kernel_client = "None"
       THEN /\ sent' = <<>> /\ pc' = "idle"
            /\ exec_out' = Raise("AttributeError")
            /\ outcome' = Finish(c.op, Raise("AttributeError"))
       ELSE /\ sent' = <<c.input>> /\ pc' = "executing"
            /\ exec_out' = Pending
            /\ outcome' = Pending
    /\ UNCHANGED <<kernel, kernel_client, xyz_vars, deck_vars>>

\* The transport hands one message of the running kernel to output_hook.
output_hook(msg) ==
    /\ pc = "executing" /\ kernel = "running"
    /\ Len(received) < MaxEvents
    /\ received' = Append(received, msg)
    /\ LET target == output_hook_target(msg, call.raise_on_stderr) IN
       /\ results' = IF target = "results" THEN Append(results, msg) ELSE results
       /\ errors' = IF target = "errors" THEN Append(errors, msg.text) ELSE errors
       /\ forwarded' = IF target = "default" THEN Append(forwarded, msg) ELSE forwarded
    /\ UNCHANGED <<kernel, kernel_client, pc, call, sent, reply, exec_out, outcome,
                   xyz_vars, deck_vars>>

\* execute_interactive returns the kernel's reply; execute finishes.
Reply ==
    /\ pc = "executing" /\ kernel = "running"
    /\ pc' = "idle"
    /\ reply' = "returned"
    /\ exec_out' = execute_reply(results, errors, call.return_full_result)
    /\ outcome' = Finish(call.op, exec_out')
    /\ UNCHANGED <<kernel, kernel_client, call, received, results, errors,
                   forwarded, sent, xyz_vars, deck_vars>>

\* execute_interactive raises (TimeoutError only when a timeout was passed);
\* execute lets the exception through.
TransportErrors == {"TimeoutError", "RuntimeError"}
TransportRaises(e) ==
    /\ pc = "executing"
    /\ e = "TimeoutError" => call.timeout
    /\ pc' = "idle"
    /\ reply' = "raised"
    /\ exec_out' = Raise(e)
    /\ outcome' = Finish(call.op, exec_out')
    /\ UNCHANGED <<kernel, kernel_client, call, received, results, errors,
                   forwarded, sent, xyz_vars, deck_vars>>

ClientIdle ==
    /\ kernel = "none" /\ kernel_client = "None" /\ pc = "idle"
    /\ call = execute(<<"%lsmagic">>, FALSE, FALSE)
    /\ received = <<>> /\ results = <<>> /\ errors = <<>> /\ forwarded = <<>>
    /\ sent = <<>> /\ reply = "none" /\ exec_out = Pending /\ outcome = Pending

ClientNext ==
    \/ start
    \/ stop
    \/ \E c \in PublicCalls : Invoke(c)
    \/ \E msg \in Messages : output_hook(msg)
    \/ Reply
    \/ \E e \in TransportErrors : TransportRaises(e)

(***************************************************************************)
(* Geometry.from_xyz: qdk_chemistry/geometry/geometry.py.                  *)
(***************************************************************************)
Digits == {"0", "1", "2", "3", "4", "5", "6", "7", "8", "9"}
Letters == {"H", "O", "C", "e", "t", "i", "l", "x"}
\* \w and \s of Python's re.
IsWord(c) == c \in Digits \cup Letters \cup {"_"}
IsSpace(c) == c \in {" ", "\n", "\t"}

RECURSIVE SkipDigits(_, _)
\* [0-9]* from position i: the position after the digits.
SkipDigits(s, i) == IF i <= Len(s) /\ s[i] \in Digits THEN SkipDigits(s, i + 1) ELSE i

RECURSIVE SkipSpace(_, _)
\* \s* from position i: the position after the white space.
SkipSpace(s, i) == IF i <= Len(s) /\ IsSpace(s[i]) THEN SkipSpace(s, i + 1) ELSE i

\* FLOAT_PATTERN = "([+-]?[0-9]*[.][0-9]+)" at position i: the position after
\* the match, 0 when there is none.
FLOAT_PATTERN(s, i) ==
    LET a == IF i <= Len(s) /\ s[i] \in {"+", "-"} THEN i + 1 ELSE i
        b == SkipDigits(s, a)
        c == SkipDigits(s, b + 1)
    IN IF b <= Len(s) /\ s[b] = "." /\ c > b + 1 THEN c ELSE 0

NoMatch == [ok |-> FALSE, end |-> 0, groups |-> <<>>]
\* XYZ_PATTERN = "(\w) FLOAT FLOAT FLOAT" at position i: the four groups and
\* the position after the match.
XYZ_PATTERN(s, i) ==
    IF ~(i + 1 <= Len(s) /\ IsWord(s[i]) /\ s[i + 1] = " ") THEN NoMatch
    ELSE LET e1 == FLOAT_PATTERN(s, i + 2) IN
         IF e1 = 0 \/ ~(e1 <= Len(s) /\ s[e1] = " ") THEN NoMatch
         ELSE LET e2 == FLOAT_PATTERN(s, e1 + 1) IN
              IF e2 = 0 \/ ~(e2 <= Len(s) /\ s[e2] = " ") THEN NoMatch
              ELSE LET e3 == FLOAT_PATTERN(s, e2 + 1) IN
                   IF e3 = 0 THEN NoMatch
                   ELSE [ok |-> TRUE, end |-> e3,
                         groups |-> <<Slice(s, i, i), Slice(s, i + 2, e1 - 1),
                                      Slice(s, e1 + 1, e2 - 1),
                                      Slice(s, e2 + 1, e3 - 1)>>]

RECURSIVE FindAllFrom(_, _)
\* re.findall(XYZ_PATTERN, s) from position i: the groups of the leftmost
\* matches, none overlapping another.
FindAllFrom(s, i) ==
    IF i > Len(s) THEN <<>>
    ELSE LET m == XYZ_PATTERN(s, i) IN
         IF m.ok THEN <<m.groups>> \o FindAllFrom(s, m.end)
         ELSE FindAllFrom(s, i + 1)
findall(s) == FindAllFrom(s, 1)

DigitValue == ("0" :> 0) @@ ("1" :> 1) @@ ("2" :> 2) @@ ("3" :> 3) @@ ("4" :> 4) @@
              ("5" :> 5) @@ ("6" :> 6) @@ ("7" :> 7) @@ ("8" :> 8) @@ ("9" :> 9)
RECURSIVE int(_)
\* int(text) of a run of decimal digits.
int(ds) ==
    IF ds = <<>> THEN 0
    ELSE 10 * int(Slice(ds, 1, Len(ds) - 1)) + DigitValue[ds[Len(ds)]]

\* re.match("\s*(?P<num_atoms>\d+)\s*\n", s): white space, digits, then white
\* space that holds a newline.  ok is FALSE where re.match returns None.
num_atoms_match(s) ==
    LET a == SkipSpace(s, 1)
        b == SkipDigits(s, a)
        c == SkipSpace(s, b)
    IN IF b > a /\ \E k \in b..(c - 1) : s[k] = "\n"
       THEN [ok |-> TRUE, num_atoms |-> int(Slice(s, a, b - 1))]
       ELSE [ok |-> FALSE, num_atoms |-> 0]

RECURSIVE StripLeadingZeros(_), StripTrailingZeros(_)
StripLeadingZeros(ds) ==
    IF ds # <<>> /\ Head(ds) = "0" THEN StripLeadingZeros(Tail(ds)) ELSE ds
StripTrailingZeros(ds) ==
    IF ds # <<>> /\ ds[Len(ds)] = "0"
    THEN StripTrailingZeros(Slice(ds, 1, Len(ds) - 1)) ELSE ds

\* float(text) of a FLOAT_PATTERN match: sign, integer digits and fraction
\* digits of the value ("+.50", "0.5" and "00.500" are one float).
float(text) ==
    LET signed == text[1] \in {"+", "-"}
        body == IF signed THEN Tail(text) ELSE text
        dot == CHOOSE k \in 1..Len(body) : body[k] = "."
        ip == StripLeadingZeros(Slice(body, 1, dot - 1))
        fp == StripTrailingZeros(Slice(body, dot + 1, Len(body)))
    IN [neg |-> text[1] = "-" /\ (ip # <<>> \/ fp # <<>>), ip |-> ip, fp |-> fp]

\* Element.from_tuple(value).
from_tuple(value) ==
    [name |-> value[1], x |-> float(value[2]), y |-> float(value[3]),
     z |-> float(value[4])]

NoGeometry == [kind |-> "none", exc |-> "", atoms |-> <<>>]

\* from_xyz with the assertion left out.
from_xyz_result_no_assert(text) ==
    IF \A k \in 1..Len(text) : text[k] # "\n"
    THEN [kind |-> "return", exc |-> "", atoms |-> <<>>]
    ELSE LET match == FindAllFrom(text, 1)
         IN [kind |-> "return", exc |-> "",
             atoms |-> [k \in 1..Len(match) |-> from_tuple(match[k])]]

\* Geometry.from_xyz(xyz).
from_xyz_result(text) ==
    IF \A k \in 1..Len(text) : text[k] # "\n"
    THEN [kind |-> "return", exc |-> "", atoms |-> <<>>]
    ELSE LET num_atoms == num_atoms_match(text)
             match == findall(text)
         IN IF ~(num_atoms.ok /\ Len(match) = num_atoms.num_atoms)
            THEN [kind |-> "raise", exc |-> "AssertionError", atoms |-> <<>>]
            ELSE [kind |-> "return", exc |-> "",
                  atoms |-> [k \in 1..Len(match) |-> from_tuple(match[k])]]

\* The texts from_xyz is called with: a first line, a title line and up to
\* MaxBodyLines further lines, and two texts that hold no newline.
FirstLines == { <<"2", "\n">>, <<" ", "1", " ", "\n">>, <<"3", "\n">>, <<"x", "\n">>, <<"0", "2", "\n", "\n">> }
TitleLines == { <<"t", "i", "t", "l", "e", "\n">>, <<"H", " ", "0", ".", "0", " ", "0", ".", "0", " ", "0", ".", "0", "\n">> }
BodyLines == { <<"H", " ", "0", ".", "0", " ", "0", ".", "0", " ", "0", ".", "7", "4", "\n">>,
               <<"O", " ", "-", "1", ".", "5", " ", ".", "5", "0", " ", "+", "2", ".", "2", "5", "\n">>,
               <<"H", "e", " ", "0", ".", "0", " ", "0", ".", "0", " ", "0", ".", "0", "\n">>,
               <<"C", " ", "1", " ", "2", " ", "3", "\n">>,
               <<"H", " ", " ", "0", ".", "0", " ", "0", ".", "0", " ", "0", ".", "0", "\n">> }
BodyTexts == UNION {[1..n -> BodyLines] : n \in 0..MaxBodyLines}
XyzTexts ==
    {h \o t \o Concat(b) : h \in FirstLines, t \in TitleLines, b \in BodyTexts}
    \cup { <<>>, <<"H", " ", "0", ".", "0", " ", "0", ".", "0", " ", "0", ".", "0">> }

\* The call Geometry.from_xyz(xyz).
from_xyz ==
    /\ geom.kind = "none"
    /\ geom' = from_xyz_result(xyz)
    /\ UNCHANGED <<xyz, client_vars, deck_vars>>

XyzIdle == xyz = <<>> /\ geom = NoGeometry

(***************************************************************************)
(* create_input_deck: qdk_chemistry/solvers/openmolcas.py and util.py.     *)
(* A formatted text is the sequence of its pieces: the literal runs of a   *)
(* template and the values put between them.                               *)
(***************************************************************************)
\* An optional value: <<>> is None, <<x>> is x.
None == <<>>
Some(x) == <<x>>

GEOMETRY_LINE_SEP == "\n  "

\* An atom of the molecule library's Mol: symbol, atomic number and the
\* coordinates of its conformer, as text.
Atom(name, z, cx, cy, cz) == [name |-> name, num |-> z, x |-> cx, y |-> cy, z |-> cz]
\* An Element of a Geometry.
Element(name, cx, cy, cz) == [name |-> name, x |-> cx, y |-> cy, z |-> cz]

\* Element.to_xyz(): "<element> <x> <y> <z>".
to_xyz(el) == <<el.name, " ", el.x, " ", el.y, " ", el.z>>

RECURSIVE Join(_, _)
\* sep.join(lines).
Join(sep, lines) ==
    IF lines = <<>> THEN <<>>
    ELSE IF Len(lines) = 1 THEN Head(lines)
    ELSE Head(lines) \o <<sep>> \o Join(sep, Tail(lines))

\* format_geometry(geometry, line_sep).
format_geometry(elements, line_sep) ==
    Join(line_sep, [i \in 1..Len(elements) |-> to_xyz(elements[i])])

\* Geometry.from_mol(mol): the conformer's coordinates and the formal charge.
from_mol(mol) ==
    [atoms |-> [i \in 1..Len(mol.atoms) |->
                    Element(mol.atoms[i].name, mol.atoms[i].x, mol.atoms[i].y,
                            mol.atoms[i].z)],
     charge |-> Some(mol.charge)]

\* format_geometry_from_mol(mol, line_sep).
format_geometry_from_mol(mol, line_sep) == format_geometry(from_mol(mol).atoms, line_sep)

\* The geometry argument: None, a Geometry (atoms, charge) or a str (text).
NoGeometryArg == [kind |-> "None", atoms |-> <<>>, charge |-> None, text |-> <<>>]
GeometryArg(atoms, charge) ==
    [kind |-> "Geometry", atoms |-> atoms, charge |-> charge, text |-> <<>>]
StrArg(text) == [kind |-> "str", atoms |-> <<>>, charge |-> None, text |-> text]

\* formatted_geometry_str(mol, geometry, line_sep).
formatted_geometry_str(mol, geometry, line_sep) ==
    IF geometry.kind = "None" THEN format_geometry_from_mol(mol, line_sep)
    ELSE IF geometry.kind = "Geometry" THEN format_geometry(geometry.atoms, line_sep)
    ELSE geometry.text

\* num_atoms_from_mol(mol) and GetFormalCharge(mol).
num_atoms_from_mol(mol) == Len(mol.atoms)
GetFormalCharge(mol) == mol.charge

RECURSIVE SumNums(_)
SumNums(atoms) == IF atoms = <<>> THEN 0 ELSE Head(atoms).num + SumNums(Tail(atoms))
\* num_electrons(mol): the sum of the atomic numbers.
num_electrons(mol) == SumNums(mol.atoms)

\* formatted_num_active_el(mol, num_active_el): the number given, else the
\* molecule's electron count.
formatted_num_active_el(mol, num_active_el) ==
    IF num_active_el = None THEN num_electrons(mol) ELSE num_active_el[1]

\* str.upper() over the letters in use.
UpperOf == ("c" :> "C") @@ ("a" :> "A") @@ ("s" :> "S") @@ ("f" :> "F") @@
           ("i" :> "I") @@ ("d" :> "D") @@ ("u" :> "U") @@ ("m" :> "M") @@
           ("p" :> "P")
upper(text) ==
    [i \in 1..Len(text) |-> IF text[i] \in DOMAIN UpperOf THEN UpperOf[text[i]]
                            ELSE text[i]]
CASSCF == <<"C", "A", "S", "S", "C", "F">>

\* OPENMOLCAS_TEMPLATE_CASSCF.format(...).
OPENMOLCAS_TEMPLATE_CASSCF(charge, num_active_el, num_active_orbitals, nroot) ==
    <<"\n&RASSCF\n  Charge= ", ToString(charge), "\n  Nactel  =  ",
      ToString(num_active_el), "\n  Ras2  =  ", ToString(num_active_orbitals),
      "\n  Ciroot  =  ", ToString(nroot), " ", ToString(nroot), " 1\n">>

\* OPEN_MOLCAS_TEMPLATE_FCIDUMP.format(...).
OPEN_MOLCAS_TEMPLATE_FCIDUMP(spin, charge) ==
    <<"\n&RASSCF\n  DMRG\n  FCIDUMP\n  TYPEINDEX\n  Spin=", ToString(spin),
      "\n  Charge=", ToString(charge),
      "\n\n  RGINPUT\n  nsweeps = 5\n  max_bond_dimension = 500\n  ENDRG\n">>

\* The branch with `method == "CASSCF"` in place of `method.upper() == "CASSCF"`.
rasscf_section_no_upper(a, charge) ==
    IF a.method = CASSCF /\ ~a.get_broombridge
    THEN OPENMOLCAS_TEMPLATE_CASSCF(charge,
             formatted_num_active_el(a.mol, a.num_active_el),
             a.num_active_orbitals, a.ci_root)
    ELSE IF a.get_broombridge = TRUE
         THEN OPEN_MOLCAS_TEMPLATE_FCIDUMP(a.spin, charge)
    ELSE <<"">>

\* The branch of create_input_deck that makes rasscf_section, of the
\* arguments a and the resolved charge.
rasscf_section(a, charge) ==
    IF upper(a.method) = CASSCF /\ ~a.get_broombridge
    THEN OPENMOLCAS_TEMPLATE_CASSCF(charge,
             formatted_num_active_el(a.mol, a.num_active_el),
             a.num_active_orbitals, a.ci_root)
    ELSE IF a.get_broombridge = TRUE
         THEN OPEN_MOLCAS_TEMPLATE_FCIDUMP(a.spin, charge)
    ELSE <<"">>

\* num_atoms = len(geometry) if isinstance(geometry, Geometry) else
\* num_atoms_from_mol(mol).
deck_num_atoms(mol, geometry) ==
    IF geometry.kind = "Geometry" THEN Len(geometry.atoms) ELSE num_atoms_from_mol(mol)

\* charge = charge if charge is not None else GetFormalCharge(mol).
deck_charge(mol, charge) == IF charge # None THEN charge[1] ELSE GetFormalCharge(mol)

\* OPENMOLCAS_TEMPLATE.format(...), of the arguments a and the resolved fields.
OPENMOLCAS_TEMPLATE(a, num_atoms, geometry, charge, section) ==
    <<"\n&GATEWAY\nCoord\n  ", ToString(num_atoms), "\n  ", a.mol_name, "\n  ">>
    \o geometry \o
    <<"\nBasis=", a.basis, "\nGroup=", a.symmetry, "\n\n&SEWARD\n",
      a.integral_keyword, "\n\n&SCF\nCharge=", ToString(charge), "\nSpin=",
      ToString(a.spin), "\n">>
    \o section \o <<"\n">>

\* create_input_deck(mol, ..., ci_root) of the arguments a.
create_input_deck_result(a) ==
    LET formatted_geometry ==
            formatted_geometry_str(a.mol, a.geometry, GEOMETRY_LINE_SEP)
        num_atoms == deck_num_atoms(a.mol, a.geometry)
        charge == deck_charge(a.mol, a.charge)
    IN OPENMOLCAS_TEMPLATE(a, num_atoms, formatted_geometry, charge,
                           rasscf_section(a, charge))

\* The molecules, geometries and methods create_input_deck is called with.
Mols ==
    { [atoms |-> <<Atom("H", 1, "0.0", "0.0", "0.0"),
                   Atom("H", 1, "0.0", "0.0", "0.74")>>, charge |-> 0],
      [atoms |-> <<Atom("O", 8, "0.0", "0.0", "0.0"),
                   Atom("H", 1, "0.0", "0.0", "0.96")>>, charge |-> -1],
      [atoms |-> <<Atom("H", 1, "0.0", "0.0", "0.0")>>, charge |-> 1] }
Geometries ==
    { NoGeometryArg,
      GeometryArg(<<Element("H", "0.0", "0.0", "0.0")>>, None),
      GeometryArg(<<Element("O", "0.0", "0.0", "0.1"), Element("H", "0.0", "0.7", "-0.4"),
                    Element("H", "0.0", "-0.7", "-0.4")>>, Some(2)),
      StrArg(<<"H 0.0 0.0 0.0">>),
      StrArg(<<"O 0.0 0.0 0.1", GEOMETRY_LINE_SEP, "H 0.0 0.7 -0.4",
               GEOMETRY_LINE_SEP, "H 0.0 -0.7 -0.4">>) }
Methods == { CASSCF, <<"c", "a", "s", "s", "c", "f">>, <<"C", "a", "s", "S", "c", "f">>, <<"F", "C", "I", "D", "U", "M", "P">>, <<>> }
DeckArgs ==
    [mol : Mols, mol_name : {"mol"}, geometry : Geometries, charge : {None, Some(3)},
     spin : {1}, basis : {"ANO-RCC-MB"}, symmetry : {"C1"}, integral_keyword : {""},
     method : Methods, get_broombridge : BOOLEAN, num_active_el : {None, Some(2)},
     num_active_orbitals : {0}, ci_root : {1}]

\* The call create_input_deck(**deck_args); deck is empty before it.
create_input_deck ==
    /\ deck = <<>>
    /\ deck_args # None
    /\ deck' = create_input_deck_result(deck_args[1])
    /\ UNCHANGED <<deck_args, client_vars, xyz_vars>>

DeckIdle == deck_args = None /\ deck = <<>>

(***************************************************************************)
(* The specifications: one per component; the other two stay idle.         *)
(***************************************************************************)
\* A client that is constructed and then driven by its caller and its kernel.
ClientInit == ClientIdle /\ XyzIdle /\ DeckIdle
ClientSpec == ClientInit /\ [][ClientNext]_vars

\* One call of Geometry.from_xyz on any of the texts.
XyzInit == xyz \in XyzTexts /\ geom = NoGeometry /\ ClientIdle /\ DeckIdle
XyzNext == from_xyz
XyzSpec == XyzInit /\ [][XyzNext]_vars

\* One call of create_input_deck on any of the argument lists.
DeckInit == deck_args \in {Some(a) : a \in DeckArgs} /\ deck = <<>>
            /\ ClientIdle /\ XyzIdle
DeckNext == create_input_deck
DeckSpec == DeckInit /\ [][DeckNext]_vars

(***************************************************************************)
(* Properties of the client.                                               *)
(***************************************************************************)
IsResult(msg) == msg.msg_type = "execute_result"
IsStderr(msg) == msg.msg_type = "stream" /\ msg.name = "stderr"
NumResults(msgs) == Len(SelectSeq(msgs, IsResult))
\* The texts of the stderr stream messages, in arrival order.
StderrTexts(msgs) ==
    LET es == SelectSeq(msgs, IsStderr) IN [i \in 1..Len(es) |-> es[i].text]
\* The call's execute_interactive has returned and execute is over.
Replied == pc = "idle" /\ reply = "returned"

\* text without its final newline.
Chomp(text) ==
    IF text # <<>> /\ text[Len(text)] = "\n" THEN Slice(text, 1, Len(text) - 1)
    ELSE text
\* message is the banner line followed by one line per text, in order.
OwnLines(message, texts) ==
    LET lines == SplitLines(message)
        n == IF lines[Len(lines)] = <<>> THEN Len(lines) - 1 ELSE Len(lines)
    IN /\ Len(lines) >= 2
       /\ lines[1] \o <<"\n">> = Banner
       /\ n - 1 = Len(texts)
       /\ \A i \in 1..Len(texts) : Contains(lines[i + 1], Chomp(texts[i]))

\* C1: a call made with raise_on_stderr = True whose stream held stderr
\* messages raises IQSharpError, whatever results arrived; the error carries
\* the stderr texts in arrival order and its message shows, after the banner,
\* each text on a line of its own.
C1_StderrRaisesWithOwnLines ==
    (Replied /\ call.raise_on_stderr /\ StderrTexts(received) # <<>>) =>
        /\ exec_out.kind = "raise" /\ exec_out.exc = "IQSharpError"
        /\ exec_out.errors = StderrTexts(received)
        /\ OwnLines(exec_out.message, StderrTexts(received))

\* C2, as stated: a stream with two or more results makes execute fail with
\* the protocol violation (the failed assertion), for every raise_on_stderr
\* and whatever else the stream holds.
C2_TwoResultsAlwaysAssertionError ==
    (Replied /\ NumResults(received) >= 2) =>
        exec_out.kind = "raise" /\ exec_out.exc = "AssertionError"

\* C2, amended: a stream with two or more results makes execute raise and
\* return neither result: the failed assertion when no stderr text was
\* buffered, IQSharpError when raise_on_stderr buffered some.
C2_TwoResultsRaise ==
    (Replied /\ NumResults(received) >= 2) =>
        /\ exec_out.kind = "raise"
        /\ exec_out.exc = IF call.raise_on_stderr /\ StderrTexts(received) # <<>>
                          THEN "IQSharpError" ELSE "AssertionError"

C2_Witness ==
    /\ Replied /\ NumResults(received) = 2 /\ StderrTexts(received) # <<>>
    /\ exec_out.exc = "AssertionError"

\* The first result message of the stream and the value the claim names: the
\* JSON under application/json, tuple-decoded, or None without that key.
TheResult == SelectSeq(received, IsResult)[1]
Decoded(msg) == IF msg.hasJson THEN unmap_tuples(json_loads(msg.json).val) ELSE PyNone
OneResultNoStderr ==
    Replied /\ NumResults(received) = 1 /\ StderrTexts(received) = <<>>

\* C3, as stated: a stream with exactly one result and no stderr message makes
\* execute return the decoded payload of that result and nothing else.
C3_ReturnsPayloadOnly ==
    OneResultNoStderr => exec_out = Return(Decoded(TheResult))

\* C3, amended: such a stream makes execute return the decoded payload when
\* return_full_result is False, and the pair of the decoded payload and the
\* result's raw content when it is True; execute does not raise.
C3_ReturnsPayload ==
    OneResultNoStderr =>
        exec_out = Return(IF call.return_full_result
                          THEN PyTuple(<<Decoded(TheResult), Content(TheResult)>>)
                          ELSE Decoded(TheResult))

C3_Witness ==
    /\ OneResultNoStderr /\ ~call.return_full_result
    /\ TheResult.hasJson /\ exec_out.value.t = "tuple"
    /\ Len(received) > 1

\* C4: a call made after stop() fails with ClientStoppedError and hands no
\* command to the transport.
C4_CallAfterStopRefused ==
    call.after_stop =>
        /\ sent = <<>> /\ pc = "idle"
        /\ outcome.kind = "raise" /\ outcome.exc = "ClientStoppedError"

DerivedOps == {"compile", "simulate", "estimate", "add_package", "get_packages",
               "reload", "get_available_operations", "get_workspace_operations",
               "get_operation_metadata"}
\* The fixed head of each derived operation's command.
Template == ("compile" :> "operation Foo() : Unit {}") @@ ("simulate" :> "%simulate ") @@
            ("estimate" :> "%estimate ") @@ ("add_package" :> "%package ") @@
            ("get_packages" :> "%package") @@ ("reload" :> "%workspace reload") @@
            ("get_available_operations" :> "%who") @@
            ("get_workspace_operations" :> "%workspace") @@
            ("get_operation_metadata" :> "?")

\* C5: a derived operation called on a Ready client hands exactly one command,
\* its template's, to the transport; get_packages sends "%package" and
\* returns what execute returns.
C5_DerivedOpsReachTransport ==
    (call.op \in DerivedOps /\ call.ready) =>
        /\ Len(sent) = 1 /\ Head(sent[1]) = Template[call.op]
        /\ (call.op = "get_packages" /\ pc = "idle") =>
               (sent = << <<"%package">> >> /\ exec_out.kind # "none"
                /\ outcome = exec_out)

\* C8: is_ready never raises, in any client state; it makes one execute probe,
\* returns True exactly when the probe returned and None when it raised.
C8_IsReadyNeverRaises ==
    call.op = "is_ready" =>
        /\ outcome.kind # "raise"
        /\ sent \in {<<>>, << <<"%history">> >>}
        /\ pc = "idle" =>
               /\ outcome.kind = "return" /\ exec_out.kind # "none"
               /\ exec_out.kind = "return" <=> outcome.value = PyTrue
               /\ exec_out.kind = "raise" <=> outcome.value = PyNone

C8_Witness ==
    /\ call.op = "is_ready" /\ Replied
    /\ exec_out.exc = "AssertionError" /\ outcome = Return(PyNone)

\* C9: every message received is handled in one way: a result is captured, a
\* stderr text is buffered under raise_on_stderr and otherwise forwarded, any
\* other message is forwarded; without raise_on_stderr the buffer stays empty
\* and execute never raises IQSharpError.
C9_MessagesHandledOneWay ==
    LET Forwarded(msg) == ~IsResult(msg) /\ ~(call.raise_on_stderr /\ IsStderr(msg))
    IN /\ results = SelectSeq(received, IsResult)
       /\ errors = IF call.raise_on_stderr THEN StderrTexts(received) ELSE <<>>
       /\ forwarded = SelectSeq(received, Forwarded)
       /\ ~call.raise_on_stderr => (errors = <<>> /\ exec_out.exc # "IQSharpError")

C9_Witness ==
    /\ Replied /\ ~call.raise_on_stderr /\ Len(received) = 3
    /\ Len(results) = 1 /\ Len(StderrTexts(received)) = 1 /\ Len(forwarded) = 2

(***************************************************************************)
(* Properties of Geometry.from_xyz.                                        *)
(***************************************************************************)
HasNewline(text) == \E k \in 1..Len(text) : text[k] = "\n"
\* The coordinate lines of the text: the pattern's matches line by line.
CoordinateLines(text) ==
    LET lines == SplitLines(text) IN
    Concat([i \in 1..Len(lines) |-> findall(lines[i])])

HasPiece(text, piece) == \E i \in 1..Len(text) : text[i] = piece
\* The value that follows the literal run `piece` of the template.
FieldAfter(text, piece) == text[(CHOOSE i \in 1..Len(text) : text[i] = piece) + 1]
HasCASSCF(text) ==
    HasPiece(text, "\n&RASSCF\n  Charge= ") /\ HasPiece(text, "\n  Nactel  =  ")
HasFCIDUMP(text) ==
    HasPiece(text, "\n&RASSCF\n  DMRG\n  FCIDUMP\n  TYPEINDEX\n  Spin=")
CasscfSpellings ==
    { m \in Methods : Len(m) = 6 /\ m[1] \in {"C", "c"} /\ m[2] \in {"A", "a"}
                      /\ m[3] \in {"S", "s"} /\ m[4] \in {"S", "s"}
                      /\ m[5] \in {"C", "c"} /\ m[6] \in {"F", "f"} }

\* C6: the deck holds the CASSCF section alone when method is CASSCF in any
\* case and get_broombridge is not set, the FCIDUMP section alone when
\* get_broombridge is set, whatever the method, and otherwise neither: the
\* header ends the deck.
C6_OneRasscfOutcome ==
    deck # <<>> =>
        LET a == deck_args[1] IN
        /\ (a.method \in CasscfSpellings /\ ~a.get_broombridge) =>
               (HasCASSCF(deck) /\ ~HasFCIDUMP(deck))
        /\ a.get_broombridge => (HasFCIDUMP(deck) /\ ~HasCASSCF(deck))
        /\ (a.method \notin CasscfSpellings /\ ~a.get_broombridge) =>
               /\ ~HasCASSCF(deck) /\ ~HasFCIDUMP(deck)
               /\ SubSeq(deck, Len(deck) - 4, Len(deck)) =
                      <<"\nSpin=", ToString(a.spin), "\n", "", "\n">>

C6_Witness ==
    /\ deck # <<>> /\ deck_args[1].get_broombridge /\ deck_args[1].method = CASSCF
    /\ HasFCIDUMP(deck)

\* The number of atoms and the charge of an explicit geometry.
GeometryAtoms(g) ==
    IF g.kind = "Geometry" THEN Len(g.atoms)
    ELSE 1 + Cardinality({i \in 1..Len(g.text) : g.text[i] = GEOMETRY_LINE_SEP})

\* C10: num_atoms and charge in the deck come from the source of the geometry
\* text: from the explicit geometry when one is passed, from mol otherwise.
C10_FieldsFromGeometrySource ==
    deck # <<>> =>
        LET a == deck_args[1]
            num_atoms == deck[2]
            charge == FieldAfter(deck, "\n\n&SCF\nCharge=")
        IN /\ a.geometry.kind = "None" =>
                  /\ num_atoms = ToString(Len(a.mol.atoms))
                  /\ a.charge = None => charge = ToString(a.mol.charge)
           /\ a.geometry.kind # "None" =>
                  /\ num_atoms = ToString(GeometryAtoms(a.geometry))
                  /\ (a.charge = None /\ a.geometry.charge # None) =>
                         charge = ToString(a.geometry.charge[1])

====
